---- MODULE Spec2Model ----
(***************************************************************************)
(* Model of three GraphQL mutation resolvers over a shared document store  *)
(* and a pub/sub bus: archiveTeam, addGitHubRepo and inviteTeamMembers.    *)
(*                                                                         *)
(* A request is a Node.js async function: the code between two awaits runs *)
(* as one step, and each awaited database operation is a step of its own.  *)
(* A ReQL query that touches several documents is not a transaction: its   *)
(* reads and its writes are separate steps that other requests interleave  *)
(* with.                                                                   *)
(***************************************************************************)
EXTENDS Integers, Sequences, FiniteSets, TLC

\* ---------------------------------------------------------------- bounds
MaxReqs == 2
MaxProjects == 1
MaxInvitees == 1

\* ---------------------------------------------------------------- domains
Reqs == 1..MaxReqs
Users == {"u1", "u2", "u3"}
Teams == {"t1", "t2"}
ArgTeams == {"t1"}
Repos == {"o/a", "o/b"}

NoRow == [none |-> TRUE]

\* universal/utils/constants
TEAM_ARCHIVED == "TEAM_ARCHIVED"
NOTIFICATIONS_ADDED == "notificationsAdded"
NEW_AUTH_TOKEN == "newAuthToken"
TEAM == "team"
TEAM_MEMBER == "teamMember"
UPDATED == "updated"
ADDED == "added"
REJOIN_TEAM == "REJOIN_TEAM"
GITHUB == "GitHubIntegration"
GITHUB_REPO_ADDED == "githubRepoAdded"

VARIABLES
    Team,          \* table Team: teamId -> row or NoRow
    TeamMember,    \* table TeamMember: set of rows
    User,          \* table User: userId -> [tms]
    Project,       \* table Project: teamId -> number of rows
    Notification,  \* table Notification: set of rows
    GitHub,        \* table GitHubIntegration: set of rows
    published,     \* sequence of getPubSub().publish calls, in call order
    pc,            \* request -> position in its resolver
    req,           \* request -> arguments and context of the call
    loc,           \* request -> local variables of the resolver
    res,           \* request -> what the resolver returned or threw
    hooks,         \* request -> state of the unawaited webhook calls
    writes         \* request -> number of store writes it has issued

store == <<Team, TeamMember, User, Project, Notification, GitHub>>
vars == <<Team, TeamMember, User, Project, Notification, GitHub, published,
          pc, req, loc, res, hooks, writes>>

\* ---------------------------------------------------------------- helpers
RECURSIVE SetToSeq(_)
SetToSeq(S) ==
    IF S = {} THEN <<>>
    ELSE LET x == CHOOSE y \in S : TRUE IN <<x>> \o SetToSeq(S \ {x})

Range(s) == {s[i] : i \in 1..Len(s)}

toTeamMemberId(teamId, userId) == <<userId, teamId>>

fromTeamMemberId(teamMemberId) ==
    [userId |-> teamMemberId[1], teamId |-> teamMemberId[2]]

getUserId(authToken) == authToken.sub

\* server/utils/authorization, by its contract: a predicate on the token or
\* on the TeamMember row of the caller
isTeamMember(authToken, teamId) == teamId \in authToken.tms

requireTeamLead(teamMemberId) ==
    \E tm \in TeamMember : tm.id = teamMemberId /\ tm.isLead

OrgLeaders == {"u3"}

requireOrgLeaderOrTeamMember(authToken, teamId) ==
    isTeamMember(authToken, teamId) \/ authToken.sub \in OrgLeaders

\* dataLoader.share(): one correlation id per request
DataLoaderShare(p) == <<"op", p>>

\* tmsSignToken({sub: id}, tms)
tmsSignToken(sub, tms) == [sub |-> sub, tms |-> tms]

Event(p, channel, id, payload, mutatorId, operationId) ==
    [channel |-> channel, id |-> id, payload |-> payload,
     mutatorId |-> mutatorId, operationId |-> operationId, req |-> p]

NoMutator == <<>>
NoOperation == <<>>

Returned(payload) == [status |-> "returned", payload |-> payload]
Thrown(message) == [status |-> "thrown", message |-> message]

\* Requests are numbered in the order they arrive; new Date() of a request
\* is its arrival time.
CanStart(p) == pc[p] = "idle" /\ \A q \in Reqs : q < p => pc[q] # "idle"
Now(p) == p

\* the connection of a caller and the token it presents
SocketOf(u) == <<"socket", u>>
AuthTokenOf(u) == [sub |-> u, tms |-> User[u].tms]

\* ---------------------------------------------------------------- initial state
MemberRow(u, t, active, lead) ==
    [id |-> toTeamMemberId(t, u), userId |-> u, teamId |-> t,
     isNotRemoved |-> active, isLead |-> lead, preferredName |-> u]

Idle == [op |-> "none"]
NoHooks == [repo |-> "idle", org |-> "idle"]

\* u1 leads t1 and u3 leads t2; u2 and u3 are active, removed or absent on t1.
InitialMembers ==
    {[u2 |-> "removed", u3 |-> "absent"], [u2 |-> "active", u3 |-> "absent"],
     [u2 |-> "removed", u3 |-> "active"], [u2 |-> "active", u3 |-> "active"]}

InitialRows(st) ==
    {MemberRow("u1", "t1", TRUE, TRUE), MemberRow("u3", "t2", TRUE, TRUE)}
    \cup {MemberRow(u, "t1", st[u] = "active", FALSE) :
            u \in {v \in {"u2", "u3"} : st[v] # "absent"}}

\* an integration of t1 that was added and deactivated before
RemovedIntegration ==
    [id |-> <<"gh", 0>>, adminUserId |-> "u3", createdAt |-> 0, updatedAt |-> 0,
     isActive |-> FALSE, nameWithOwner |-> "o/b", teamId |-> "t1", userIds |-> {}]

Init ==
    /\ \E st \in InitialMembers :
         /\ TeamMember = InitialRows(st)
         /\ User = [u \in Users |->
                      [tms |-> {t \in Teams : \E tm \in InitialRows(st) :
                                  tm.userId = u /\ tm.teamId = t /\ tm.isNotRemoved}]]
    /\ Team = [t \in Teams |-> [id |-> t, name |-> t, orgId |-> "org1", isArchived |-> FALSE]]
    /\ \E n \in 0..MaxProjects : Project = [t \in Teams |-> IF t = "t1" THEN n ELSE 1]
    /\ Notification = {}
    /\ GitHub = {RemovedIntegration}
    /\ published = <<>>
    /\ pc = [p \in Reqs |-> "idle"]
    /\ req = [p \in Reqs |-> Idle]
    /\ loc = [p \in Reqs |-> Idle]
    /\ res = [p \in Reqs |-> Idle]
    /\ hooks = [p \in Reqs |-> NoHooks]
    /\ writes = [p \in Reqs |-> 0]

\* ---------------------------------------------------------------- archiveTeam
\* Lines 39-47: everything up to the first await. dataLoader.share() runs
\* before the authorization check; requireTeamLead is then awaited.
ArchiveStart(p) ==
    /\ CanStart(p)
    /\ \E u \in Users, t \in ArgTeams :
         req' = [req EXCEPT ![p] =
                   [op |-> "archiveTeam", teamId |-> t, mutatorId |-> SocketOf(u),
                    authToken |-> AuthTokenOf(u), now |-> Now(p)]]
    /\ loc' = [loc EXCEPT ![p] =
                 [operationId |-> DataLoaderShare(p), authorized |-> TRUE,
                  doc |-> NoRow, userDocs |-> {},
                  notificationData |-> NoRow, teamResult |-> NoRow,
                  notifications |-> <<>>]]
    /\ pc' = [pc EXCEPT ![p] = "archiveAuth"]
    /\ UNCHANGED <<store, published, res, hooks, writes>>

ArchiveAuthNotAwaited(p) ==
    /\ pc[p] = "archiveAuth"
    /\ LET userId == getUserId(req[p].authToken)
           teamMemberId == toTeamMemberId(req[p].teamId, userId)
       IN loc' = [loc EXCEPT ![p].authorized = requireTeamLead(teamMemberId)]
    /\ pc' = [pc EXCEPT ![p] = "archiveRead"]
    /\ UNCHANGED <<store, published, req, res, hooks, writes>>

\* Line 47: requireTeamLead throws when the caller is not the team lead.
ArchiveAuth(p) ==
    /\ pc[p] = "archiveAuth"
    /\ LET userId == getUserId(req[p].authToken)
           teamMemberId == toTeamMemberId(req[p].teamId, userId)
       IN IF requireTeamLead(teamMemberId)
          THEN /\ pc' = [pc EXCEPT ![p] = "archiveRead"]
               /\ UNCHANGED <<res, loc>>
          ELSE /\ pc' = [pc EXCEPT ![p] = "done"]
               /\ res' = [res EXCEPT ![p] = Thrown("Unauthorized")]
               /\ loc' = [loc EXCEPT ![p].authorized = FALSE]
    /\ UNCHANGED <<store, published, req, hooks, writes>>

\* Lines 51-61: the reads of the query.
ArchiveRead(p) ==
    /\ pc[p] = "archiveRead"
    /\ LET teamId == req[p].teamId IN
       IF Team[teamId] = NoRow
       THEN \* pluck on a missing row fails the query
            /\ pc' = [pc EXCEPT ![p] = "done"]
            /\ res' = [res EXCEPT ![p] = Thrown("ReqlNonExistenceError")]
            /\ loc' = loc
       ELSE /\ loc' = [loc EXCEPT ![p].doc =
                        [team |-> [name |-> Team[teamId].name, orgId |-> Team[teamId].orgId],
                         projectCount |-> Project[teamId],
                         userIds |-> {tm.userId : tm \in
                            {m \in TeamMember : m.teamId = teamId /\ m.isNotRemoved}}]]
            /\ pc' = [pc EXCEPT ![p] = "archiveUsers"]
            /\ res' = res
    /\ UNCHANGED <<store, published, req, hooks, writes>>

ArchiveUsersClearingTms(p) ==
    /\ pc[p] = "archiveUsers"
    /\ LET teamId == req[p].teamId
           userIds == loc[p].doc.userIds
           changed == {u \in userIds : User[u].tms # {}}
       IN /\ User' = [u \in Users |-> IF u \in userIds THEN [tms |-> {}] ELSE User[u]]
          /\ loc' = [loc EXCEPT ![p].userDocs = {[id |-> u, tms |-> {}] : u \in changed}]
    /\ writes' = [writes EXCEPT ![p] = @ + 1]
    /\ pc' = [pc EXCEPT ![p] = "archiveBranch"]
    /\ UNCHANGED <<Team, TeamMember, Project, Notification, GitHub, published,
                   req, res, hooks>>

\* Lines 63-67: remove the team from the tms of the users read above;
\* returnChanges yields only the rows that changed.
ArchiveUsers(p) ==
    /\ pc[p] = "archiveUsers"
    /\ LET teamId == req[p].teamId
           userIds == loc[p].doc.userIds
           changed == {u \in userIds : teamId \in User[u].tms}
       IN /\ User' = [u \in Users |->
                        IF u \in userIds THEN [tms |-> User[u].tms \ {teamId}] ELSE User[u]]
          /\ loc' = [loc EXCEPT ![p].userDocs =
                       {[id |-> u, tms |-> User[u].tms \ {teamId}] : u \in changed}]
    /\ writes' = [writes EXCEPT ![p] = @ + 1]
    /\ pc' = [pc EXCEPT ![p] = "archiveBranch"]
    /\ UNCHANGED <<Team, TeamMember, Project, Notification, GitHub, published,
                   req, res, hooks>>

HardDeleteConditionOr(doc) ==
    doc.projectCount = 0 \/ Cardinality(doc.userIds) = 1

\* Line 70: the condition of r.branch, over the values read at lines 55-60.
HardDeleteCondition(doc) ==
    doc.projectCount = 0 /\ Cardinality(doc.userIds) = 1

\* Lines 69-83: hard delete or soft archive.
ArchiveBranch(p) ==
    /\ pc[p] = "archiveBranch"
    /\ LET teamId == req[p].teamId
           doc == loc[p].doc
           old == Team[teamId]
       IN IF HardDeleteCondition(doc)
          THEN /\ Team' = [Team EXCEPT ![teamId] = NoRow]
               /\ TeamMember' = {m \in TeamMember : m.teamId # teamId}
               /\ loc' = [loc EXCEPT ![p].teamResult = old]
          ELSE /\ Team' = [Team EXCEPT ![teamId] =
                             IF old = NoRow THEN NoRow ELSE [old EXCEPT !.isArchived = TRUE]]
               /\ TeamMember' = TeamMember
               /\ loc' = [loc EXCEPT ![p].notificationData = doc,
                                      ![p].teamResult =
                                         IF old = NoRow \/ old.isArchived THEN NoRow
                                         ELSE [old EXCEPT !.isArchived = TRUE]]
    /\ writes' = [writes EXCEPT ![p] = @ + 1]
    /\ pc' = [pc EXCEPT ![p] = "archiveAfterQuery"]
    /\ UNCHANGED <<User, Project, Notification, GitHub, published, req, res, hooks>>

MakeNotificationsForAll(p, notificationData, now) ==
    LET userIds == SetToSeq(notificationData.userIds)
    IN [i \in 1..Len(userIds) |->
          [id |-> <<"n", p, userIds[i]>>, orgId |-> notificationData.team.orgId,
           startAt |-> now, type |-> TEAM_ARCHIVED, userIds |-> userIds,
           teamName |-> notificationData.team.name]]

\* Lines 88-95
MakeNotifications(p, notificationData, now) ==
    LET userIds == SetToSeq(notificationData.userIds)
    IN [i \in 1..Len(userIds) |->
          [id |-> <<"n", p, userIds[i]>>, orgId |-> notificationData.team.orgId,
           startAt |-> now, type |-> TEAM_ARCHIVED, userIds |-> <<userIds[i]>>,
           teamName |-> notificationData.team.name]]

publishTeamArchivedNotificationsAtOnce(p, notifications, subOptions) ==
    IF notifications = <<>> THEN <<>>
    ELSE <<Event(p, NOTIFICATIONS_ADDED, notifications[1].userIds[1],
                 [notifications |-> notifications],
                 subOptions.mutatorId, subOptions.operationId)>>

\* Lines 23-29: one publish per notification, to its first user.
publishTeamArchivedNotifications(p, notifications, subOptions) ==
    [i \in 1..Len(notifications) |->
        Event(p, NOTIFICATIONS_ADDED, notifications[i].userIds[1],
              [notifications |-> <<notifications[i]>>],
              subOptions.mutatorId, subOptions.operationId)]

publishAuthTokensWithTeam(p, userDocs) ==
    LET docs == SetToSeq(userDocs)
    IN [i \in 1..Len(docs) |->
          Event(p, NEW_AUTH_TOKEN, docs[i].id,
                [newAuthToken |-> tmsSignToken(docs[i].id, docs[i].tms \cup {req[p].teamId})],
                NoMutator, NoOperation)]

\* Lines 13-21: one NEW_AUTH_TOKEN publish per changed user.
publishAuthTokensWithoutTeam(p, userDocs) ==
    LET docs == SetToSeq(userDocs)
    IN [i \in 1..Len(docs) |->
          Event(p, NEW_AUTH_TOKEN, docs[i].id,
                [newAuthToken |-> tmsSignToken(docs[i].id, docs[i].tms)],
                NoMutator, NoOperation)]

\* Line 97 passes no subOptions: the spread of undefined adds no field.
NoSubOptions == [mutatorId |-> NoMutator, operationId |-> NoOperation]

ArchiveFinishReturningRow(p, pubs) ==
    LET teamId == req[p].teamId
        teamResult == loc[p].teamResult
    IN IF teamResult = NoRow
       THEN /\ res' = [res EXCEPT ![p] = Thrown("Team was already archived")]
            /\ published' = published \o pubs
       ELSE /\ res' = [res EXCEPT ![p] = Returned([team |-> teamResult])]
            /\ published' = published \o pubs
                  \o <<Event(p, TEAM, teamId, [teamId |-> teamId, type |-> UPDATED],
                            req[p].mutatorId, loc[p].operationId)>>
                  \o publishAuthTokensWithoutTeam(p, loc[p].userDocs)

\* Lines 100-112: the rest of the resolver once the store work is done.
\* pubs are the publishes already made in the same step.
ArchiveFinish(p, pubs) ==
    LET teamId == req[p].teamId
        teamResult == loc[p].teamResult
    IN IF teamResult = NoRow
       THEN /\ res' = [res EXCEPT ![p] = Thrown("Team was already archived")]
            /\ published' = published \o pubs
       ELSE /\ res' = [res EXCEPT ![p] =
                         Returned([team |-> [teamResult EXCEPT !.isArchived = TRUE]])]
            /\ published' = published \o pubs
                  \o <<Event(p, TEAM, teamId, [teamId |-> teamId, type |-> UPDATED],
                            req[p].mutatorId, loc[p].operationId)>>
                  \o publishAuthTokensWithoutTeam(p, loc[p].userDocs)

\* Lines 86-96 after the query resolves: build the notifications and issue
\* the insert, or go straight to line 100.
ArchiveAfterQuery(p) ==
    /\ pc[p] = "archiveAfterQuery"
    /\ IF loc[p].notificationData # NoRow
       THEN /\ loc' = [loc EXCEPT ![p].notifications =
                         MakeNotifications(p, loc[p].notificationData, req[p].now)]
            /\ pc' = [pc EXCEPT ![p] = "archiveInsert"]
            /\ UNCHANGED <<published, res>>
       ELSE /\ ArchiveFinish(p, <<>>)
            /\ pc' = [pc EXCEPT ![p] = "done"]
            /\ loc' = loc
    /\ UNCHANGED <<store, req, hooks, writes>>

ArchiveInsertNotAwaited(p) ==
    /\ pc[p] = "archiveInsert"
    /\ ArchiveFinish(p, publishTeamArchivedNotifications(p, loc[p].notifications, NoSubOptions))
    /\ pc' = [pc EXCEPT ![p] = "done"]
    /\ UNCHANGED <<store, req, loc, hooks, writes>>

\* Line 96: the insert itself.
ArchiveInsert(p) ==
    /\ pc[p] = "archiveInsert"
    /\ Notification' = Notification \cup Range(loc[p].notifications)
    /\ writes' = [writes EXCEPT ![p] = @ + 1]
    /\ pc' = [pc EXCEPT ![p] = "archiveAfterInsert"]
    /\ UNCHANGED <<Team, TeamMember, User, Project, GitHub, published,
                   req, loc, res, hooks>>

\* Lines 97-112 after the insert resolves.
ArchiveAfterInsert(p) ==
    /\ pc[p] = "archiveAfterInsert"
    /\ ArchiveFinish(p, publishTeamArchivedNotifications(p, loc[p].notifications, NoSubOptions))
    /\ pc' = [pc EXCEPT ![p] = "done"]
    /\ UNCHANGED <<store, req, loc, hooks, writes>>

\* ---------------------------------------------------------------- inviteTeamMembers
InviteeSets == {S \in SUBSET Users : Cardinality(S) \in 1..MaxInvitees}

\* Lines 26-29: share(), then requireOrgLeaderOrTeamMember is awaited.
InviteStart(p) ==
    /\ CanStart(p)
    /\ \E u \in Users, t \in ArgTeams, inv \in InviteeSets :
         req' = [req EXCEPT ![p] =
                   [op |-> "inviteTeamMembers", teamId |-> t, mutatorId |-> SocketOf(u),
                    authToken |-> AuthTokenOf(u), now |-> Now(p), invitees |-> inv]]
    /\ loc' = [loc EXCEPT ![p] =
                 [operationId |-> DataLoaderShare(p), authorized |-> TRUE,
                  wasRemoved |-> {}, reactivations |-> <<>>, results |-> {}]]
    /\ pc' = [pc EXCEPT ![p] = "inviteAuth"]
    /\ UNCHANGED <<store, published, res, hooks, writes>>

\* Line 29
InviteAuth(p) ==
    /\ pc[p] = "inviteAuth"
    /\ IF requireOrgLeaderOrTeamMember(req[p].authToken, req[p].teamId)
       THEN /\ pc' = [pc EXCEPT ![p] = "inviteMutation"]
            /\ UNCHANGED <<res, loc>>
       ELSE /\ pc' = [pc EXCEPT ![p] = "done"]
            /\ res' = [res EXCEPT ![p] = Thrown("Unauthorized")]
            /\ loc' = [loc EXCEPT ![p].authorized = FALSE]
    /\ UNCHANGED <<store, published, req, hooks, writes>>

\* server/safeMutations/inviteTeamMembers: an invitee whose TeamMember row
\* on the team is removed is reactivated; the others get an invitation.
Reactivated(invitees, teamId) ==
    {u \in invitees : \E m \in TeamMember :
        m.id = toTeamMemberId(teamId, u) /\ ~m.isNotRemoved}

safeInviteTeamMembers(p) ==
    /\ pc[p] = "inviteMutation"
    /\ LET teamId == req[p].teamId
           back == Reactivated(req[p].invitees, teamId)
           order == SetToSeq(back)
       IN /\ TeamMember' = {IF m.teamId = teamId /\ m.userId \in back
                              THEN [m EXCEPT !.isNotRemoved = TRUE] ELSE m : m \in TeamMember}
          /\ User' = [u \in Users |->
                        IF u \in back THEN [tms |-> User[u].tms \cup {teamId}] ELSE User[u]]
          /\ Notification' = Notification \cup
                {[id |-> <<"n", p, u>>, orgId |-> "org1", startAt |-> req[p].now,
                  type |-> "ADD_TO_TEAM", userIds |-> <<u>>, teamName |-> teamId] : u \in back}
          /\ loc' = [loc EXCEPT ![p].wasRemoved = back,
                                 ![p].reactivations =
                                    [i \in 1..Len(order) |->
                                       [notificationId |-> <<"n", p, order[i]>>,
                                        teamMemberId |-> toTeamMemberId(teamId, order[i]),
                                        preferredName |-> order[i]]],
                                 ![p].results = req[p].invitees \ back]
          /\ writes' = [writes EXCEPT ![p] = @ + (IF back = {} THEN 0 ELSE 1)]
    /\ pc' = [pc EXCEPT ![p] = "inviteAfter"]
    /\ UNCHANGED <<Team, Project, GitHub, published, req, res, hooks>>

ReactivationEventsAsAdded(p, reactivation, teamId, subOptions) ==
    <<Event(p, TEAM_MEMBER, teamId,
            [teamMemberId |-> reactivation.teamMemberId,
             notification |-> [type |-> ADDED, teamId |-> teamId,
                               preferredName |-> reactivation.preferredName],
             type |-> ADDED],
            subOptions.mutatorId, subOptions.operationId),
      Event(p, TEAM, fromTeamMemberId(reactivation.teamMemberId).userId,
            [teamId |-> teamId, notificationId |-> reactivation.notificationId,
             type |-> ADDED],
            subOptions.mutatorId, subOptions.operationId)>>

\* Lines 38-46: the two publishes of one reactivation.
ReactivationEvents(p, reactivation, teamId, subOptions) ==
    <<Event(p, TEAM_MEMBER, teamId,
            [teamMemberId |-> reactivation.teamMemberId,
             notification |-> [type |-> REJOIN_TEAM, teamId |-> teamId,
                               preferredName |-> reactivation.preferredName],
             type |-> ADDED],
            subOptions.mutatorId, subOptions.operationId),
      Event(p, TEAM, fromTeamMemberId(reactivation.teamMemberId).userId,
            [teamId |-> teamId, notificationId |-> reactivation.notificationId,
             type |-> ADDED],
            subOptions.mutatorId, subOptions.operationId)>>

RECURSIVE FlatMap(_, _, _, _)
FlatMap(p, reactivations, teamId, subOptions) ==
    IF reactivations = <<>> THEN <<>>
    ELSE ReactivationEvents(p, Head(reactivations), teamId, subOptions)
         \o FlatMap(p, Tail(reactivations), teamId, subOptions)

\* Line 35
ReactivatedTeamMemberIds(reactivations) ==
    [i \in 1..Len(reactivations) |-> reactivations[i].teamMemberId]

\* Lines 33-48 after the safe mutation resolves.
InviteAfter(p) ==
    /\ pc[p] = "inviteAfter"
    /\ LET subOptions == [mutatorId |-> req[p].mutatorId, operationId |-> loc[p].operationId]
       IN published' = published \o FlatMap(p, loc[p].reactivations, req[p].teamId, subOptions)
    /\ res' = [res EXCEPT ![p] =
                 Returned([reactivatedTeamMemberIds |->
                              ReactivatedTeamMemberIds(loc[p].reactivations),
                           results |-> loc[p].results])]
    /\ pc' = [pc EXCEPT ![p] = "done"]
    /\ UNCHANGED <<store, req, loc, hooks, writes>>

InviteTeamMembers(p) ==
    \/ InviteStart(p)
    \/ InviteAuth(p)
    \/ safeInviteTeamMembers(p)
    \/ InviteAfter(p)

\* ---------------------------------------------------------------- addGitHubRepo
\* table Provider: who has linked which service on which team
Provider ==
    {[userId |-> "u1", teamId |-> "t1", service |-> GITHUB, isActive |-> TRUE,
      accessToken |-> "tok-u1"],
     [userId |-> "u3", teamId |-> "t1", service |-> GITHUB, isActive |-> TRUE,
      accessToken |-> "tok-u3"],
     [userId |-> "u2", teamId |-> "t1", service |-> GITHUB, isActive |-> FALSE,
      accessToken |-> "tok-u2"],
     [userId |-> "u2", teamId |-> "t1", service |-> "SlackIntegration", isActive |-> TRUE,
      accessToken |-> "tok-s2"]}

\* server/utils/standardError: the error as a field of the payload
standardError(message) == Returned([error |-> [message |-> message]])

NoId == <<>>

\* Lines 83-98: the membership check is synchronous, on the token.
AddStart(p) ==
    /\ CanStart(p)
    /\ \E u \in Users, t \in ArgTeams, n \in Repos :
         /\ req' = [req EXCEPT ![p] =
                      [op |-> "addGitHubRepo", teamId |-> t, mutatorId |-> SocketOf(u),
                       authToken |-> AuthTokenOf(u), now |-> Now(p), nameWithOwner |-> n]]
         /\ IF isTeamMember(AuthTokenOf(u), t)
            THEN /\ pc' = [pc EXCEPT ![p] = "addProviders"]
                 /\ res' = res
                 /\ loc' = [loc EXCEPT ![p] =
                              [authorized |-> TRUE, allTeamProviders |-> {},
                               accessToken |-> "", viewerPermissions |-> NoRow,
                               integrationId |-> NoId,
                               newRepo |-> NoRow, userIds |-> {}]]
            ELSE /\ pc' = [pc EXCEPT ![p] = "done"]
                 /\ res' = [res EXCEPT ![p] = standardError("Team not found")]
                 /\ loc' = [loc EXCEPT ![p] =
                              [authorized |-> FALSE, allTeamProviders |-> {},
                               accessToken |-> "", viewerPermissions |-> NoRow,
                               integrationId |-> NoId,
                               newRepo |-> NoRow, userIds |-> {}]]
    /\ hooks' = [hooks EXCEPT ![p] = NoHooks]
    /\ UNCHANGED <<store, published, writes>>

\* Lines 95-106: the team's active GitHub providers; the viewer needs one.
AddProviders(p) ==
    /\ pc[p] = "addProviders"
    /\ LET userId == getUserId(req[p].authToken)
           allTeamProviders == {pr \in Provider : pr.teamId = req[p].teamId
                                   /\ pr.service = GITHUB /\ pr.isActive}
           mine == {pr \in allTeamProviders : pr.userId = userId}
       IN IF mine = {}
          THEN /\ pc' = [pc EXCEPT ![p] = "done"]
               /\ res' = [res EXCEPT ![p] = standardError("GitHub Provider not found")]
               /\ loc' = loc
          ELSE /\ pc' = [pc EXCEPT ![p] = "addAccess"]
               /\ res' = res
               /\ loc' = [loc EXCEPT ![p].allTeamProviders = allTeamProviders,
                                      ![p].accessToken = (CHOOSE pr \in mine : TRUE).accessToken]
    /\ UNCHANGED <<store, published, req, hooks, writes>>

\* server/integrations/tokenCanAccessRepo answers {data, errors}: the
\* errors of GitHub, or whether the viewer can administer the repository.
ViewerPermissions ==
    {[errors |-> <<"Bad credentials">>],
     [data |-> [viewerCanAdminister |-> FALSE]],
     [data |-> [viewerCanAdminister |-> TRUE]]}

AddAccessHooksFirst(p) ==
    /\ pc[p] = "addAccess"
    /\ \E viewerPermissions \in ViewerPermissions :
         /\ loc' = [loc EXCEPT ![p].viewerPermissions = viewerPermissions]
         /\ hooks' = [hooks EXCEPT ![p] = [repo |-> "pending", org |-> "pending"]]
         /\ IF "errors" \in DOMAIN viewerPermissions
            THEN /\ pc' = [pc EXCEPT ![p] = "done"]
                 /\ res' = [res EXCEPT ![p] = standardError("Unknown GitHub error")]
            ELSE IF ~viewerPermissions.data.viewerCanAdminister
            THEN /\ pc' = [pc EXCEPT ![p] = "done"]
                 /\ res' = [res EXCEPT ![p] = standardError("Not GitHub Administrator")]
            ELSE /\ pc' = [pc EXCEPT ![p] = "addLookup"]
                 /\ res' = res
    /\ UNCHANGED <<store, published, req, writes>>

\* Lines 106-121: the answer of tokenCanAccessRepo; on success both webhook
\* calls are started without await and the integration query is issued.
AddAccess(p) ==
    /\ pc[p] = "addAccess"
    /\ \E viewerPermissions \in ViewerPermissions :
         /\ loc' = [loc EXCEPT ![p].viewerPermissions = viewerPermissions]
         /\ IF "errors" \in DOMAIN viewerPermissions
            THEN /\ pc' = [pc EXCEPT ![p] = "done"]
                 /\ res' = [res EXCEPT ![p] = standardError("Unknown GitHub error")]
                 /\ hooks' = hooks
            ELSE IF ~viewerPermissions.data.viewerCanAdminister
            THEN /\ pc' = [pc EXCEPT ![p] = "done"]
                 /\ res' = [res EXCEPT ![p] = standardError("Not GitHub Administrator")]
                 /\ hooks' = hooks
            ELSE /\ pc' = [pc EXCEPT ![p] = "addLookup"]
                 /\ res' = res
                 /\ hooks' = [hooks EXCEPT ![p] = [repo |-> "pending", org |-> "pending"]]
    /\ UNCHANGED <<store, published, req, writes>>

FindIntegrationByAdmin(teamId, nameWithOwner) ==
    {g.id : g \in {h \in GitHub : h.teamId = teamId /\ h.adminUserId = nameWithOwner}}

\* Lines 125-129: ids of the rows of the team with this nameWithOwner.
FindIntegration(teamId, nameWithOwner) ==
    {g.id : g \in {h \in GitHub : h.teamId = teamId /\ h.nameWithOwner = nameWithOwner}}

\* Lines 124-129: nth(0) of the matching rows, or null.
AddLookup(p) ==
    /\ pc[p] = "addLookup"
    /\ LET found == FindIntegration(req[p].teamId, req[p].nameWithOwner)
       IN IF found = {}
          THEN loc' = [loc EXCEPT ![p].integrationId = NoId]
          ELSE \E id \in found : loc' = [loc EXCEPT ![p].integrationId = id]
    /\ pc' = [pc EXCEPT ![p] = "addWrite"]
    /\ UNCHANGED <<store, published, req, res, hooks, writes>>

\* Lines 133-145
NewIntegration(p, userId, now, teamId, nameWithOwner) ==
    [id |-> <<"gh", p>>, adminUserId |-> userId, createdAt |-> now, updatedAt |-> now,
     isActive |-> TRUE, nameWithOwner |-> nameWithOwner, teamId |-> teamId,
     userIds |-> {userId}]

\* Lines 149-157
UpdateIntegration(row, userId, now) ==
    [row EXCEPT !.adminUserId = userId, !.isActive = TRUE, !.userIds = {userId},
                !.updatedAt = now]

\* Lines 130-159: insert when the lookup found nothing, else update.
AddWrite(p) ==
    /\ pc[p] = "addWrite"
    /\ LET userId == getUserId(req[p].authToken)
           integrationId == loc[p].integrationId
       IN IF integrationId = NoId
          THEN LET row == NewIntegration(p, userId, req[p].now, req[p].teamId,
                                         req[p].nameWithOwner)
               IN /\ GitHub' = GitHub \cup {row}
                  /\ loc' = [loc EXCEPT ![p].newRepo = row]
                  /\ pc' = [pc EXCEPT ![p] = "addJoin"]
                  /\ res' = res
          ELSE LET old == CHOOSE g \in GitHub : g.id = integrationId
                   new == UpdateIntegration(old, userId, req[p].now)
               IN IF new = old
                  THEN \* no change: ('changes')(0) has no default
                       /\ GitHub' = GitHub
                       /\ loc' = loc
                       /\ pc' = [pc EXCEPT ![p] = "done"]
                       /\ res' = [res EXCEPT ![p] = Thrown("ReqlNonExistenceError")]
                  ELSE /\ GitHub' = (GitHub \ {old}) \cup {new}
                       /\ loc' = [loc EXCEPT ![p].newRepo = new]
                       /\ pc' = [pc EXCEPT ![p] = "addJoin"]
                       /\ res' = res
    /\ writes' = [writes EXCEPT ![p] = @ + 1]
    /\ UNCHANGED <<Team, TeamMember, User, Project, Notification, published, req, hooks>>

\* Lines 162-169: server/safeMutations/maybeJoinRepos tells which of the
\* other providers' users can join; the viewer is always in.
AddJoin(p) ==
    /\ pc[p] = "addJoin"
    /\ LET userId == getUserId(req[p].authToken)
           teamMemberProviders == {pr \in loc[p].allTeamProviders : pr.userId # userId}
       IN \E joined \in SUBSET {pr.userId : pr \in teamMemberProviders} :
            loc' = [loc EXCEPT ![p].userIds = joined \cup {userId}]
    /\ pc' = [pc EXCEPT ![p] = "addPublish"]
    /\ UNCHANGED <<store, published, req, res, hooks, writes>>

Settled(hook) == hook \in {"fulfilled", "rejected"}

AddPublishAwaitingHooks(p) ==
    /\ pc[p] = "addPublish"
    /\ Settled(hooks[p].repo) /\ Settled(hooks[p].org)
    /\ IF hooks[p].repo = "rejected" \/ hooks[p].org = "rejected"
       THEN /\ res' = [res EXCEPT ![p] = standardError("Unknown GitHub error")]
            /\ published' = published
       ELSE LET githubRepoAdded ==
                    [repo |-> [row |-> loc[p].newRepo, userIds |-> loc[p].userIds,
                               teamMembers |-> {}]]
            IN /\ published' = Append(published,
                     Event(p, GITHUB_REPO_ADDED, req[p].teamId, githubRepoAdded,
                           req[p].mutatorId, NoOperation))
               /\ res' = [res EXCEPT ![p] = Returned(githubRepoAdded)]
    /\ pc' = [pc EXCEPT ![p] = "done"]
    /\ UNCHANGED <<store, req, loc, hooks, writes>>

\* Lines 171-198
AddPublish(p) ==
    /\ pc[p] = "addPublish"
    /\ LET teamId == req[p].teamId
           repo == [row |-> loc[p].newRepo, userIds |-> loc[p].userIds,
                    teamMembers |-> {m.id : m \in {tm \in TeamMember :
                                        tm.userId \in loc[p].userIds /\ tm.teamId = teamId}}]
           githubRepoAdded == [repo |-> repo]
       IN /\ published' = Append(published,
                Event(p, GITHUB_REPO_ADDED, teamId, githubRepoAdded,
                      req[p].mutatorId, NoOperation))
          /\ res' = [res EXCEPT ![p] = Returned(githubRepoAdded)]
    /\ pc' = [pc EXCEPT ![p] = "done"]
    /\ UNCHANGED <<store, req, loc, hooks, writes>>

\* Lines 15-35: list the repository's hooks and create one when there is
\* none. The call runs detached from the resolver: it ends by fulfilling
\* or rejecting a promise nobody holds.
createRepoWebhook(p) ==
    /\ hooks[p].repo = "pending"
    /\ \E outcome \in {"fulfilled", "rejected"} :
         hooks' = [hooks EXCEPT ![p].repo = outcome]
    /\ UNCHANGED <<store, published, pc, req, loc, res, writes>>

\* Lines 43-70: the same for the organisation; profileRes.errors is thrown
\* inside the detached call.
createOrgWebhook(p) ==
    /\ hooks[p].org = "pending"
    /\ \E outcome \in {"fulfilled", "rejected"} :
         hooks' = [hooks EXCEPT ![p].org = outcome]
    /\ UNCHANGED <<store, published, pc, req, loc, res, writes>>

AddGitHubRepo(p) ==
    \/ AddStart(p)
    \/ AddProviders(p)
    \/ AddAccess(p)
    \/ AddLookup(p)
    \/ AddWrite(p)
    \/ AddJoin(p)
    \/ AddPublish(p)
    \/ createRepoWebhook(p)
    \/ createOrgWebhook(p)

ArchiveTeam(p) ==
    \/ ArchiveStart(p)
    \/ ArchiveAuth(p)
    \/ ArchiveRead(p)
    \/ ArchiveUsers(p)
    \/ ArchiveBranch(p)
    \/ ArchiveAfterQuery(p)
    \/ ArchiveInsert(p)
    \/ ArchiveAfterInsert(p)

Next == \E p \in Reqs : ArchiveTeam(p) \/ InviteTeamMembers(p) \/ AddGitHubRepo(p)

Spec == Init /\ [][Next]_vars

\* addGitHubRepo alone, one call at a time: a call starts only when every
\* earlier call has returned.
NoCallInFlight == \A q \in Reqs : pc[q] \in {"idle", "done"}

NextSeq ==
    \E p \in Reqs :
        \/ NoCallInFlight /\ AddStart(p)
        \/ AddProviders(p)
        \/ AddAccess(p)
        \/ AddLookup(p)
        \/ AddWrite(p)
        \/ AddJoin(p)
        \/ AddPublish(p)
        \/ createRepoWebhook(p)
        \/ createOrgWebhook(p)

SpecSeq == Init /\ [][NextSeq]_vars

\* archiveTeam alone, one call at a time.
NextArchiveSeq ==
    \E p \in Reqs :
        \/ NoCallInFlight /\ ArchiveStart(p)
        \/ ArchiveAuth(p)
        \/ ArchiveRead(p)
        \/ ArchiveUsers(p)
        \/ ArchiveBranch(p)
        \/ ArchiveAfterQuery(p)
        \/ ArchiveInsert(p)
        \/ ArchiveAfterInsert(p)

SpecArchiveSeq == Init /\ [][NextArchiveSeq]_vars

\* ---------------------------------------------------------------- properties
ActiveUserIds(teamId) ==
    {m.userId : m \in {tm \in TeamMember : tm.teamId = teamId /\ tm.isNotRemoved}}

EventsOf(p) == {i \in 1..Len(published) : published[i].req = p}

IsOp(p, op) == pc[p] # "idle" /\ req[p].op = op

\* The step of request p that carries out lines 69-83, taken when nothing
\* changed the team between the query's reads and its writes.
BranchStepInIsolation(p) ==
    /\ pc[p] = "archiveBranch"
    /\ pc'[p] = "archiveAfterQuery"
    /\ Team[req[p].teamId] # NoRow
    /\ loc[p].doc.projectCount = Project[req[p].teamId]
    /\ loc[p].doc.userIds = ActiveUserIds(req[p].teamId)

\* C1: archiveTeam by the team lead deletes the Team row and every
\* TeamMember row of the team when the team has no Project row and exactly
\* one active member; in every other case it keeps the Team row with
\* isArchived = TRUE and leaves the team's TeamMember rows as they were.
C1_HardDeleteOrSoftArchive ==
    [][\A p \in Reqs : BranchStepInIsolation(p) =>
         LET t == req[p].teamId IN
         IF Project[t] = 0 /\ Cardinality(ActiveUserIds(t)) = 1
         THEN /\ Team'[t] = NoRow
              /\ ~\E m \in TeamMember' : m.teamId = t
              /\ \A m \in TeamMember : m.teamId # t => m \in TeamMember'
         ELSE /\ Team'[t] # NoRow
              /\ Team'[t].isArchived
              /\ Team'[t].name = Team[t].name
              /\ TeamMember' = TeamMember]_vars

C1_Witness ==
    \E p \in Reqs :
        /\ IsOp(p, "archiveTeam")
        /\ pc[p] = "archiveAfterQuery"
        /\ HardDeleteCondition(loc[p].doc)
        /\ Team[req[p].teamId] = NoRow
        /\ \E m \in TeamMember : m.teamId # req[p].teamId

\* C2: a request whose authorization predicate denied the caller has
\* issued no store write and made no publish call.
C2_DeniedHasNoEffect ==
    \A p \in Reqs :
        (pc[p] # "idle" /\ ~loc[p].authorized) =>
            /\ writes[p] = 0
            /\ EventsOf(p) = {}
            /\ pc[p] = "done"

C2_Witness ==
    \E p, q \in Reqs :
        /\ IsOp(p, "archiveTeam") /\ pc[p] = "done" /\ ~loc[p].authorized
        /\ IsOp(q, "addGitHubRepo") /\ pc[q] = "done" /\ ~loc[q].authorized

ArchivedRowsOf(p) ==
    {n \in Notification : n.id[2] = p /\ n.type = TEAM_ARCHIVED}

PastInsert(p) ==
    /\ IsOp(p, "archiveTeam")
    /\ loc[p].doc # NoRow
    /\ pc[p] \in {"archiveAfterInsert", "done"}

OnePerMember(p) ==
    /\ Cardinality(ArchivedRowsOf(p)) = Cardinality(loc[p].doc.userIds)
    /\ \A u \in loc[p].doc.userIds :
          Cardinality({n \in ArchivedRowsOf(p) : n.userIds = <<u>>}) = 1

\* C3 as stated: archiving a team with N >= 1 active members, whatever its
\* number of projects, inserts N TEAM_ARCHIVED rows, one per member.
C3_Original ==
    \A p \in Reqs :
        (PastInsert(p) /\ Cardinality(loc[p].doc.userIds) >= 1) => OnePerMember(p)

\* C3 (amended): archiving a team with N active members inserts exactly N
\* Notification rows of type TEAM_ARCHIVED, one per active member, each
\* with userIds = [that member], unless the call takes the hard-delete
\* branch (no project and N = 1), where it inserts none.
C3_NotificationsPerMember ==
    \A p \in Reqs :
        PastInsert(p) =>
            IF HardDeleteCondition(loc[p].doc)
            THEN ArchivedRowsOf(p) = {}
            ELSE OnePerMember(p)

C3_Witness ==
    \E p \in Reqs :
        /\ PastInsert(p)
        /\ Cardinality(loc[p].doc.userIds) = 3
        /\ Cardinality(ArchivedRowsOf(p)) = 3

SameRepo(g, h) == g.teamId = h.teamId /\ g.nameWithOwner = h.nameWithOwner

AtMostOnePerRepo == \A g, h \in GitHub : SameRepo(g, h) => g = h

\* C4: across successive addGitHubRepo calls that do not overlap, the
\* table never holds two records with the same (teamId, nameWithOwner):
\* the write of a call inserts a record when the pair has none, and
\* otherwise updates the pair's record, keeping its id and createdAt and
\* setting isActive.
C4_AddRepoIdempotent ==
    [][/\ AtMostOnePerRepo'
       /\ \A p \in Reqs : (pc[p] = "addWrite" /\ pc'[p] = "addJoin") =>
            LET existing == {g \in GitHub : g.teamId = req[p].teamId
                                /\ g.nameWithOwner = req[p].nameWithOwner}
            IN IF existing = {}
               THEN /\ Cardinality(GitHub') = Cardinality(GitHub) + 1
                    /\ GitHub \subseteq GitHub'
               ELSE /\ Cardinality(GitHub') = Cardinality(GitHub)
                    /\ \A old \in existing : \E new \in GitHub' :
                          /\ new.id = old.id
                          /\ new.createdAt = old.createdAt
                          /\ SameRepo(new, old)
                          /\ new.isActive
                          /\ new.updatedAt = req[p].now]_vars

C4_Witness ==
    \E p, q \in Reqs :
        /\ p < q
        /\ IsOp(p, "addGitHubRepo") /\ IsOp(q, "addGitHubRepo")
        /\ pc[p] = "done" /\ pc[q] = "done"
        /\ req[p].nameWithOwner = "o/a" /\ req[q].nameWithOwner = "o/a"
        /\ res[q].status = "returned"
        /\ \E g \in GitHub :
              g.id = <<"gh", p>> /\ g.createdAt = Now(p) /\ g.updatedAt = Now(q)
        /\ Cardinality(GitHub) = 2

\* C5: re-inviting a removed member reactivates the member's row instead of
\* adding a row, so each (userId, teamId) has one TeamMember row at most;
\* the call returns the member's teamMemberId in reactivatedTeamMemberIds
\* and publishes on TEAM_MEMBER.<teamId> an event for it whose notification
\* has type REJOIN_TEAM, and none with another notification type.
C5_ReinviteReactivates ==
    /\ \A m, n \in TeamMember :
          (m.userId = n.userId /\ m.teamId = n.teamId) => m = n
    /\ \A p \in Reqs :
          (IsOp(p, "inviteTeamMembers") /\ pc[p] = "done" /\ loc[p].authorized) =>
             \A u \in loc[p].wasRemoved :
                LET id == toTeamMemberId(req[p].teamId, u)
                    mine == {i \in EventsOf(p) :
                               /\ published[i].channel = TEAM_MEMBER
                               /\ published[i].id = req[p].teamId
                               /\ published[i].payload.teamMemberId = id}
                IN /\ \E k \in 1..Len(res[p].payload.reactivatedTeamMemberIds) :
                        res[p].payload.reactivatedTeamMemberIds[k] = id
                   /\ u \notin res[p].payload.results
                   /\ mine # {}
                   /\ \A i \in mine : published[i].payload.notification.type = REJOIN_TEAM

C5_Witness ==
    \E p \in Reqs :
        /\ IsOp(p, "inviteTeamMembers")
        /\ pc[p] = "done"
        /\ loc[p].wasRemoved # {}
        /\ \A u \in loc[p].wasRemoved : \E m \in TeamMember :
              m.id = toTeamMemberId(req[p].teamId, u) /\ m.isNotRemoved

\* C6: whenever a Team row is deleted, the team has at that moment no
\* Project row and at most one active member.
C6_DeleteDecisionAtomic ==
    [][\A t \in Teams : (Team[t] # NoRow /\ Team'[t] = NoRow) =>
          (Project[t] = 0 /\ Cardinality(ActiveUserIds(t)) <= 1)]_vars

\* What the store holds when the event is published.
Reported(e) ==
    IF e.channel = NOTIFICATIONS_ADDED
    THEN \A k \in 1..Len(e.payload.notifications) :
            e.payload.notifications[k] \in Notification
    ELSE IF e.channel = TEAM /\ req[e.req].op = "archiveTeam"
    THEN /\ Team[e.id] = NoRow \/ Team[e.id].isArchived
         /\ writes[e.req] >= 2
         /\ loc[e.req].teamResult # NoRow
    ELSE IF e.channel = GITHUB_REPO_ADDED
    THEN \E g \in GitHub :
            /\ g.id = e.payload.repo.row.id
            /\ SameRepo(g, e.payload.repo.row)
            /\ g.isActive
    ELSE TRUE

\* C7: every publish of archiveTeam and addGitHubRepo comes after the
\* store write it reports: when NOTIFICATIONS_ADDED is published the
\* Notification row is in the table, when TEAM is published the Team row
\* is archived or deleted and the users' tms are written, and when
\* githubRepoAdded is published the integration record is in the table.
C7_PublishAfterWrite ==
    [][\A i \in (Len(published) + 1)..Len(published') : Reported(published'[i])]_vars

C7_Witness ==
    /\ \E i \in 1..Len(published) : published[i].channel = NOTIFICATIONS_ADDED
    /\ \E i \in 1..Len(published) :
          published[i].channel = TEAM /\ req[published[i].req].op = "archiveTeam"
    /\ \E i \in 1..Len(published) : published[i].channel = GITHUB_REPO_ADDED

\* C8: no authorization failure and no business-rule failure of archiveTeam
\* or addGitHubRepo is thrown; each is returned as an error in the payload.
C8_FailuresReturned ==
    \A p \in Reqs :
        (pc[p] = "done" /\ req[p].op \in {"archiveTeam", "addGitHubRepo"}) =>
            ~(/\ res[p].status = "thrown"
              /\ res[p].message \in {"Unauthorized", "Team was already archived"})

\* C9: every team-update, team-archived notification, team-member rejoin
\* and team-added event of an archiveTeam or inviteTeamMembers request
\* carries the request's mutatorId and its share() operationId.
C9_EventsCarryIds ==
    \A i \in 1..Len(published) :
        LET e == published[i] IN
        (/\ req[e.req].op \in {"archiveTeam", "inviteTeamMembers"}
         /\ e.channel \in {TEAM, NOTIFICATIONS_ADDED, TEAM_MEMBER}) =>
            /\ e.mutatorId = req[e.req].mutatorId
            /\ e.operationId = loc[e.req].operationId

AddedWhateverTheHooks(p) ==
    /\ res[p].status = "returned"
    /\ "repo" \in DOMAIN res[p].payload
    /\ res[p].payload.repo.row.isActive
    /\ \E i \in EventsOf(p) :
          /\ published[i].channel = GITHUB_REPO_ADDED
          /\ published[i].payload = res[p].payload
    /\ \E g \in GitHub : g.id = res[p].payload.repo.row.id /\ g.isActive

\* C10: once addGitHubRepo has started its webhook calls it returns the
\* added repo, with the event published and the record active, whatever
\* the state of those calls; a webhook call that has ended is not run again.
C10_WebhooksBestEffort ==
    [][\A p \in Reqs :
          /\ (pc'[p] = "done" /\ hooks'[p] # NoHooks) => AddedWhateverTheHooks(p)'
          /\ Settled(hooks[p].repo) => hooks'[p].repo = hooks[p].repo
          /\ Settled(hooks[p].org) => hooks'[p].org = hooks[p].org]_vars

C10_Witness ==
    \E p \in Reqs :
        /\ IsOp(p, "addGitHubRepo")
        /\ pc[p] = "done"
        /\ hooks[p].repo = "pending"
        /\ hooks[p].org = "rejected"
        /\ AddedWhateverTheHooks(p)

ChannelEvents(p, channel) == {i \in EventsOf(p) : published[i].channel = channel}

Succeeded(p) ==
    IsOp(p, "archiveTeam") /\ pc[p] = "done" /\ res[p].status = "returned"

SoftArchived(p) == Succeeded(p) /\ loc[p].notificationData # NoRow

\* C11: a successful archiveTeam that soft-archives a team with N active
\* members has made N publishes on NOTIFICATIONS_ADDED.<userId>, one per
\* member and each with that member's notification alone, and one publish
\* on TEAM.<teamId>.
C11_PublishesOfSoftArchive ==
    \A p \in Reqs : SoftArchived(p) =>
        LET members == loc[p].doc.userIds
            notes == ChannelEvents(p, NOTIFICATIONS_ADDED)
        IN /\ Cardinality(notes) = Cardinality(members)
           /\ \A u \in members : Cardinality({i \in notes : published[i].id = u}) = 1
           /\ \A i \in notes :
                 /\ Len(published[i].payload.notifications) = 1
                 /\ published[i].payload.notifications[1].type = TEAM_ARCHIVED
                 /\ published[i].payload.notifications[1].userIds = <<published[i].id>>
           /\ Cardinality({i \in ChannelEvents(p, TEAM) :
                              published[i].id = req[p].teamId}) = 1

C11_Witness ==
    \E p \in Reqs :
        /\ SoftArchived(p)
        /\ loc[p].doc.projectCount = 0
        /\ Cardinality(loc[p].doc.userIds) = 3
        /\ Cardinality(ChannelEvents(p, NOTIFICATIONS_ADDED)) = 3

HasActiveRow(u, t) ==
    \E m \in TeamMember : m.userId = u /\ m.teamId = t /\ m.isNotRemoved

\* C12 as stated: once archiveTeam on a team has completed, a user's tms
\* contains the team exactly when the user has a non-removed TeamMember row
\* for it.
C12_Original ==
    \A p \in Reqs : Succeeded(p) =>
        \A u \in Users :
            (req[p].teamId \in User[u].tms) <=> HasActiveRow(u, req[p].teamId)

\* C12 (amended): archiveTeam on team T removes T from the tms of every
\* user it read as an active member of T, leaves the other teams of those
\* tms and the tms of every other user unchanged, and writes tms in no
\* other step; it does not keep tms equal to the TeamMember table, since a
\* soft archive leaves the members' rows non-removed.
C12_TmsWithoutTeam ==
    [][\A p \in Reqs : (IsOp(p, "archiveTeam") /\ pc'[p] # pc[p]) =>
          IF pc[p] = "archiveUsers"
          THEN \A u \in Users :
                  User'[u].tms = IF u \in loc[p].doc.userIds
                                 THEN User[u].tms \ {req[p].teamId}
                                 ELSE User[u].tms
          ELSE User' = User]_vars

C12_Witness ==
    \E p \in Reqs :
        /\ SoftArchived(p)
        /\ "u3" \in loc[p].doc.userIds
        /\ User["u3"].tms = {"t2"}
        /\ HasActiveRow("u3", req[p].teamId)
        /\ User["u2"].tms = {}

AlreadyArchived(p) ==
    /\ IsOp(p, "archiveTeam")
    /\ pc[p] = "done"
    /\ res[p].status = "thrown"
    /\ res[p].message = "Team was already archived"

\* C13: an archiveTeam that fails with 'Team was already archived' has
\* inserted no Notification row and published no event, so no member ever
\* holds two TEAM_ARCHIVED notifications.
C13_AlreadyArchivedHasNoEffect ==
    /\ \A p \in Reqs : AlreadyArchived(p) =>
          ArchivedRowsOf(p) = {} /\ EventsOf(p) = {}
    /\ \A u \in Users :
          Cardinality({n \in Notification :
                         n.type = TEAM_ARCHIVED /\ n.userIds = <<u>>}) <= 1

ErrorReturned(p) ==
    /\ IsOp(p, "addGitHubRepo")
    /\ pc[p] = "done"
    /\ res[p].status = "returned"
    /\ "error" \in DOMAIN res[p].payload

\* C14: an addGitHubRepo that returns an error has started no webhook
\* call, written nothing to the integration table and published nothing;
\* errors of GitHub are returned as 'Unknown GitHub error', without their
\* content.
C14_ErrorHasNoEffect ==
    \A p \in Reqs : ErrorReturned(p) =>
        LET message == res[p].payload.error.message IN
        /\ hooks[p] = NoHooks
        /\ writes[p] = 0
        /\ EventsOf(p) = {}
        /\ ~\E g \in GitHub : g.id = <<"gh", p>>
        /\ message \in {"Team not found", "GitHub Provider not found",
                        "Unknown GitHub error", "Not GitHub Administrator"}
        /\ (loc[p].viewerPermissions # NoRow
              /\ "errors" \in DOMAIN loc[p].viewerPermissions) =>
               /\ message = "Unknown GitHub error"
               /\ message \notin Range(loc[p].viewerPermissions.errors)
               /\ DOMAIN res[p].payload = {"error"}

C14_Witness ==
    \E p, q \in Reqs :
        /\ ErrorReturned(p)
        /\ loc[p].viewerPermissions # NoRow
        /\ "errors" \in DOMAIN loc[p].viewerPermissions
        /\ IsOp(q, "addGitHubRepo") /\ pc[q] = "done" /\ hooks[q] # NoHooks

\* C15: a successful archiveTeam returns a team with isArchived = TRUE:
\* the deleted row with isArchived set after a hard delete, the updated row
\* after a soft archive.
C15_ReturnsArchivedTeam ==
    \A p \in Reqs : Succeeded(p) =>
        LET team == res[p].payload.team IN
        /\ "isArchived" \in DOMAIN team
        /\ team.isArchived
        /\ team.id = req[p].teamId
        /\ team.name = loc[p].doc.team.name
        /\ team = [loc[p].teamResult EXCEPT !.isArchived = TRUE]
        /\ loc[p].notificationData # NoRow => team = loc[p].teamResult

C15_Witness ==
    \E p \in Reqs :
        /\ Succeeded(p)
        /\ loc[p].notificationData = NoRow
        /\ ~loc[p].teamResult.isArchived
        /\ Team[req[p].teamId] = NoRow
        /\ res[p].payload.team.isArchived

\* C16: when addGitHubRepo calls for the same (teamId, nameWithOwner)
\* overlap, the table ends with one record for the pair at most.
C16_OneRecordUnderInterleaving ==
    (\A p \in Reqs : pc[p] \in {"idle", "done"}) =>
        \A g, h \in GitHub :
            (g.teamId = h.teamId /\ g.nameWithOwner = h.nameWithOwner) => g.id = h.id

\* C17: a successful archiveTeam has published one NEW_AUTH_TOKEN.<userId>
\* event for each user whose tms it changed and for nobody else; the token
\* is signed over the user's new tms, which lacks the team, and the event
\* comes after the TEAM.<teamId> event.
C17_AuthTokensOfChangedUsers ==
    \A p \in Reqs : Succeeded(p) =>
        LET tokens == ChannelEvents(p, NEW_AUTH_TOKEN) IN
        /\ \A d \in loc[p].userDocs :
              Cardinality({i \in tokens : published[i].id = d.id}) = 1
        /\ \A i \in tokens :
              /\ \E d \in loc[p].userDocs :
                    /\ d.id = published[i].id
                    /\ published[i].payload.newAuthToken = tmsSignToken(d.id, d.tms)
              /\ published[i].payload.newAuthToken.sub = published[i].id
              /\ req[p].teamId \notin published[i].payload.newAuthToken.tms
              /\ \E j \in ChannelEvents(p, TEAM) :
                    j < i /\ published[j].id = req[p].teamId

C17_Witness ==
    \E p \in Reqs :
        /\ Succeeded(p)
        /\ Cardinality(loc[p].userDocs) = 3
        /\ \E i \in ChannelEvents(p, NEW_AUTH_TOKEN) :
              published[i].id = "u3" /\ published[i].payload.newAuthToken.tms = {"t2"}

====
